---- MODULE Spec2Model ----
(***************************************************************************)
(* EchoVerse: text rewriting (rewrite.py), text-to-speech (tts.py) and the *)
(* Streamlit front-end (app.py).                                           *)
(*                                                                         *)
(* Strings are sequences of one-character strings.  The specifications     *)
(* share the variables: SpecChunk (chunk_text on bounded inputs), SpecTTS  *)
(* (threads calling into the TTS engine; SpecTTSFair adds the fairness of  *)
(* the thread scheduler), SpecUI (one session of the                       *)
(* front-end, its script run statement by statement through rewrite.py and *)
(* tts.py, next to another session's thread of the same process),          *)
(* SpecPanel (the History section on bounded histories) and SpecRewrite    *)
(* (calls of rewrite_text, with another thread calling initialize_model at *)
(* the same time).                                                         *)
(***************************************************************************)
EXTENDS Integers, Sequences, FiniteSets, TLC

VARIABLES
    \* chunk_text
    ctext,          \* the text argument
    csize,          \* the max_chunk_size argument
    chunks,         \* the returned list
    cpc,            \* "call" before the call, "done" after it
    \* tts.py
    engine,         \* _tts_engine.engine: its properties, ok = FALSE for None
    lock,           \* _tts_engine.lock: 0 when free, else the holding thread
    th,             \* per thread: the call it is in, its position and locals
    \* app.py: one session
    history,        \* st.session_state.history
    current_audio,  \* st.session_state.current_audio
    processing_time,\* st.session_state.processing_time (its keys)
    widgets,        \* the widgets' values: text_input, tone, save_history, ...
    event,          \* the interaction that started the run in progress,
                    \* "none" between runs
    script,         \* where the session's script run stands: "unloaded"
                    \* before the first run, "idle" between runs, else the
                    \* function of rewrite.py or tts.py it is in
    panel,          \* the history panel as the last finished run rendered it
    now,            \* the clock datetime.now() reads
    \* rewrite.py
    rewrite_pipeline,   \* _rewrite_pipeline: "None" or the pipeline object,
                        \* named after the call that created it
    rewrite_tokenizer,  \* _tokenizer: "None" or "tokenizer"
    rewrite_model,      \* _model: "None" or "model"
    rw,             \* the rewrite_text call in progress: position and locals
    im              \* per caller: the initialize_model call in progress

chunkVars == <<ctext, csize, chunks, cpc>>
ttsVars == <<engine, lock, th>>
uiVars == <<history, current_audio, processing_time, widgets, event, script,
           panel, now>>

\* the globals of rewrite.py
rwGlobals == <<rewrite_pipeline, rewrite_tokenizer, rewrite_model>>
rwVars == <<rwGlobals, rw, im>>

notChunk == <<ttsVars, uiVars, rwVars>>
notTts == <<chunkVars, uiVars, rwVars>>
notUi == <<chunkVars, ttsVars, rwVars>>
notRw == <<chunkVars, ttsVars, uiVars>>

vars == <<chunkVars, ttsVars, uiVars, rwVars>>

-----------------------------------------------------------------------------
(* Bounds *)

\* longest text handed to chunk_text in SpecChunk
MaxLen == 6
\* largest max_chunk_size handed to chunk_text in SpecChunk
MaxChunk == 4
\* number of threads (Streamlit sessions) calling into tts.py
NThreads == 2
\* longest session history handed to the History section in SpecPanel
MaxEntries == 6
\* most entries the session's history holds in SpecUI
MaxSaved == 2
\* last instant of the clock
MaxTime == 2

-----------------------------------------------------------------------------
(* Python string primitives *)

\* characters of the bounded inputs: a letter, a blank and the three
\* sentence terminators chunk_text looks at
Chars == {"a", " ", ".", "!", "?"}

\* str.isspace for one character.  The strings of the model are made of the
\* characters U+0000 to U+00FE; the whitespace among them is tab, line feed,
\* vertical tab, form feed, carriage return, the separators U+001C to U+001F,
\* the blank, next line (U+0085) and the no-break space (U+00A0)
IsSpace(c) ==
    c \in {"\t", "\n", "", "\f", "\r", "", "", "", "",
           " ", "", " "}

\* str.replace(old, new) for one-character old and new
Replace(s, old, new) == [i \in 1..Len(s) |-> IF s[i] = old THEN new ELSE s[i]]

\* str.strip()
Strip(s) ==
    IF \A i \in 1..Len(s) : IsSpace(s[i]) THEN <<>>
    ELSE LET lo == CHOOSE i \in 1..Len(s) :
                       ~IsSpace(s[i]) /\ \A j \in 1..(i - 1) : IsSpace(s[j])
             hi == CHOOSE i \in 1..Len(s) :
                       ~IsSpace(s[i]) /\ \A j \in (i + 1)..Len(s) : IsSpace(s[j])
         IN  SubSeq(s, lo, hi)

\* the positions of s, in increasing order
Positions(s) == [i \in 1..Len(s) |-> i]

\* str.split(sep) for a one-character sep: the pieces between separators,
\* empty pieces included
SplitOn(s, sep) ==
    LET seps == SelectSeq(Positions(s), LAMBDA i : s[i] = sep)
        m == Len(seps)
    IN  [k \in 1..(m + 1) |->
            SubSeq(s, IF k = 1 THEN 1 ELSE seps[k - 1] + 1,
                      IF k = m + 1 THEN Len(s) ELSE seps[k] - 1)]

\* str.split(): the maximal runs of non-whitespace characters
SplitWs(s) ==
    LET starts == SelectSeq(Positions(s), LAMBDA i :
                      ~IsSpace(s[i]) /\ (i = 1 \/ IsSpace(s[i - 1])))
        ends == SelectSeq(Positions(s), LAMBDA i :
                      ~IsSpace(s[i]) /\ (i = Len(s) \/ IsSpace(s[i + 1])))
    IN  [k \in 1..Len(starts) |-> SubSeq(s, starts[k], ends[k])]

\* s holds sub at position i
MatchAt(s, i, sub) == \A k \in 1..Len(sub) : s[i + k - 1] = sub[k]

\* str.find(sub) + 1: the first position of sub in s, 0 when there is none
Find(s, sub) ==
    LET starts == 1..(Len(s) - Len(sub) + 1)
    IN  IF \E i \in starts : MatchAt(s, i, sub)
        THEN CHOOSE i \in starts :
                 MatchAt(s, i, sub) /\ \A j \in 1..(i - 1) : ~MatchAt(s, j, sub)
        ELSE 0

\* str.replace(old, new): the non-overlapping occurrences, left to right
RECURSIVE ReplaceAll(_, _, _)
ReplaceAll(s, old, new) ==
    LET p == Find(s, old)
    IN  IF p = 0 THEN s
        ELSE SubSeq(s, 1, p - 1) \o new
             \o ReplaceAll(SubSeq(s, p + Len(old), Len(s)), old, new)

\* str.split(sep) for a separator of several characters
RECURSIVE SplitStr(_, _)
SplitStr(s, sep) ==
    LET p == Find(s, sep)
    IN  IF p = 0 THEN <<s>>
        ELSE <<SubSeq(s, 1, p - 1)>> \o SplitStr(SubSeq(s, p + Len(sep), Len(s)), sep)

\* sep.join(parts)
RECURSIVE Join(_, _)
Join(sep, parts) ==
    IF parts = <<>> THEN <<>>
    ELSE IF Len(parts) = 1 THEN parts[1]
    ELSE parts[1] \o sep \o Join(sep, Tail(parts))

\* the letters that str.upper() and str.lower() exchange one for one
LowerCase == <<"a", "b", "c", "d", "e", "f", "g", "h", "i", "j", "k", "l", "m",
               "n", "o", "p", "q", "r", "s", "t", "u", "v", "w", "x", "y", "z",
               "à", "á", "â", "ã", "ä", "å", "æ", "ç", "è", "é", "ê", "ë", "ì",
               "í", "î", "ï", "ð", "ñ", "ò", "ó", "ô", "õ", "ö", "ø", "ù", "ú",
               "û", "ü", "ý", "þ">>
UpperCase == <<"A", "B", "C", "D", "E", "F", "G", "H", "I", "J", "K", "L", "M",
               "N", "O", "P", "Q", "R", "S", "T", "U", "V", "W", "X", "Y", "Z",
               "À", "Á", "Â", "Ã", "Ä", "Å", "Æ", "Ç", "È", "É", "Ê", "Ë", "Ì",
               "Í", "Î", "Ï", "Ð", "Ñ", "Ò", "Ó", "Ô", "Õ", "Ö", "Ø", "Ù", "Ú",
               "Û", "Ü", "Ý", "Þ">>

\* str.upper() of one character: a string, of two characters for the sharp s
Upper(c) ==
    IF c = "ß" THEN <<"S", "S">>
    ELSE IF c = "µ" THEN <<"Μ">>
    ELSE IF \E i \in 1..Len(LowerCase) : LowerCase[i] = c
    THEN <<UpperCase[CHOOSE i \in 1..Len(LowerCase) : LowerCase[i] = c]>>
    ELSE <<c>>

\* str.lower() of one character
Lower(c) ==
    IF \E i \in 1..Len(UpperCase) : UpperCase[i] = c
    THEN LowerCase[CHOOSE i \in 1..Len(UpperCase) : UpperCase[i] = c]
    ELSE c

\* unit repeated k times: unit * k
Repeat(unit, k) ==
    [i \in 1..(k * Len(unit)) |-> unit[((i - 1) % Len(unit)) + 1]]

-----------------------------------------------------------------------------
(* rewrite.chunk_text *)

\* one iteration of the word loop; st = [chunks, temp]
WordStep(st, word, max_chunk_size) ==
    IF Len(st.temp) + Len(word) + 1 > max_chunk_size
    THEN IF st.temp # <<>>
         THEN [chunks |-> Append(st.chunks, Strip(st.temp)), temp |-> word]
         ELSE [chunks |-> Append(st.chunks, word), temp |-> <<>>]
    ELSE [chunks |-> st.chunks,
          temp   |-> IF st.temp # <<>> THEN st.temp \o <<" ">> \o word ELSE word]

\* `for word in words` from state st
RECURSIVE WordLoop(_, _, _)
WordLoop(st, words, max_chunk_size) ==
    IF words = <<>> THEN st
    ELSE WordLoop(WordStep(st, Head(words), max_chunk_size), Tail(words),
                  max_chunk_size)

\* one iteration of the sentence loop; st = [chunks, current]
SentenceStep(st, raw, max_chunk_size) ==
    LET sentence == Strip(raw)
    IN  IF sentence = <<>> THEN st
        ELSE IF Len(st.current) + Len(sentence) + 1 > max_chunk_size
        THEN IF st.current # <<>>
             THEN [chunks  |-> Append(st.chunks, Strip(st.current)),
                   current |-> sentence]
             ELSE LET words == SplitWs(sentence)
                      w == WordLoop([chunks |-> st.chunks, temp |-> <<>>],
                                    words, max_chunk_size)
                  IN  [chunks  |-> w.chunks,
                       current |-> IF w.temp # <<>> THEN w.temp ELSE st.current]
        ELSE [chunks  |-> st.chunks,
              current |-> IF st.current # <<>>
                          THEN st.current \o <<".", " ">> \o sentence
                          ELSE sentence]

\* `for sentence in sentences` from state st
RECURSIVE SentenceLoop(_, _, _)
SentenceLoop(st, sentences, max_chunk_size) ==
    IF sentences = <<>> THEN st
    ELSE SentenceLoop(SentenceStep(st, Head(sentences), max_chunk_size),
                      Tail(sentences), max_chunk_size)

chunk_text(text, max_chunk_size) ==
    IF Len(text) <= max_chunk_size THEN <<text>>
    ELSE LET sentences == SplitOn(Replace(Replace(text, "!", "."), "?", "."), ".")
             st == SentenceLoop([chunks |-> <<>>, current |-> <<>>],
                                sentences, max_chunk_size)
         IN  IF st.current # <<>>
             THEN Append(st.chunks, Strip(st.current))
             ELSE st.chunks

-----------------------------------------------------------------------------
(* SpecChunk: chunk_text applied to every bounded input *)

Texts == UNION {[1..n -> Chars] : n \in 0..MaxLen}

ChunkIdle ==
    /\ ctext = <<>>
    /\ csize = 1
    /\ chunks = <<>>
    /\ cpc = "idle"

ChunkInit ==
    /\ ctext \in Texts
    /\ csize \in 1..MaxChunk
    /\ chunks = <<>>
    /\ cpc = "call"

ChunkText ==
    /\ cpc = "call"
    /\ chunks' = chunk_text(ctext, csize)
    /\ cpc' = "done"
    /\ UNCHANGED <<ctext, csize>>
    /\ UNCHANGED notChunk

-----------------------------------------------------------------------------
(* tts.py: the engine, its lock, and the threads calling into it *)

Threads == 1..NThreads

\* the rate _configure_engine sets, and the speech_rate default that
\* generate_audio and speak_text compare against
DefaultRate == 180
\* set_speech_rate clamps to [MinRate, MaxRate]
MinRate == 50
MaxRate == 300
\* the voice _configure_engine selects, and another installed voice
ConfiguredVoice == "v1"
OtherVoice == "v2"
\* the voice and the rate pyttsx3.init() leaves the engine with
DriverVoice == "driver-default"
DriverRate == 200

\* texts, speech rates and voice ids the callers pass
TtsTexts == {<<>>, <<" ">>, <<"h", "i">>}
Rates == {DefaultRate, 400}
VoiceIds == {"None", OtherVoice}

\* not text or not text.strip()
Blank(text) == text = <<>> \/ Strip(text) = <<>>

\* max(50, min(300, rate))
ClampRate(rate) ==
    LET lo == IF rate < MaxRate THEN rate ELSE MaxRate
    IN  IF lo > MinRate THEN lo ELSE MinRate

\* a thread outside every call
IdleThread ==
    [pc |-> "idle", busy |-> FALSE, op |-> "none", text |-> <<>>,
     speech_rate |-> DefaultRate, voice_id |-> "None",
     \* None is "None" for a voice and 0 for a rate (both falsy)
     original_voice |-> "None", original_rate |-> 0,
     result |-> "none", file |-> FALSE,
     \* history of the call, for the properties
     swallowed |-> FALSE, failed |-> FALSE, spoken |-> FALSE,
     entry |-> [voice |-> "None", rate |-> 0]]

\* an engine that pyttsx3.init() returned, with its voice and rate
NewEngine(voice, rate) ==
    [ok |-> TRUE, voice |-> voice, rate |-> rate]

\* self.engine = None
NoEngine ==
    [ok |-> FALSE, voice |-> "None", rate |-> 0]

\* _configure_engine: it sets the voice, then the rate, and gives up
\* silently at the first getProperty or setProperty that raises; it sets no
\* voice when none is installed
ConfiguredEngines ==
    {NewEngine(ConfiguredVoice, DefaultRate),
     NewEngine(DriverVoice, DefaultRate),
     NewEngine(ConfiguredVoice, DriverRate),
     NewEngine(DriverVoice, DriverRate)}

\* TTSEngine.__init__: the engine as _configure_engine left it, or None when
\* pyttsx3.init raised
TtsInit ==
    /\ engine \in {NoEngine} \cup ConfiguredEngines
    /\ lock = 0
    /\ th = [t \in Threads |-> IdleThread]

TtsIdle ==
    /\ engine = NoEngine
    /\ lock = 0
    /\ th = [t \in Threads |-> IdleThread]

\* the positions at which a thread executes an operation of the engine
EngineOps ==
    {"ga_getvoice", "ga_setvoice", "ga_getrate", "ga_setrate", "ga_save",
     "ga_run", "ga_restorevoice", "ga_restorerate",
     "sp_getvoice", "sp_setvoice", "sp_getrate", "sp_setrate", "sp_say",
     "sp_run", "sp_restorevoice", "sp_restorerate",
     "gv_getvoices"}

\* thread t moves to record r; nothing outside tts.py changes
Move(t, r) ==
    /\ th' = [th EXCEPT ![t] = r]
    /\ UNCHANGED notTts

\* thread t enters the engine operation it stands at
EngineEnter(t) ==
    /\ th[t].pc \in EngineOps
    /\ ~th[t].busy
    /\ Move(t, [th[t] EXCEPT !.busy = TRUE])
    /\ UNCHANGED <<engine, lock>>

\* the call of record r has returned: its result is with the caller, its
\* locals are gone
Done(r) ==
    [IdleThread EXCEPT !.pc = "done", !.op = r.op, !.text = r.text,
                       !.result = r.result]

\* the engine operation at position p of thread t is executing
Executing(t, p) == th[t].pc = p /\ th[t].busy

(* ---- generate_audio ---- *)

\* `if speech_rate != 180` after the voice section
GaAfterVoice(r) ==
    IF r.speech_rate # DefaultRate THEN "ga_getrate" ELSE "ga_save"

\* `if original_rate` after the voice was restored or left alone
GaAfterRestoreVoice(r) ==
    IF r.original_rate # 0 THEN "ga_restorerate" ELSE "ga_verify"

\* `if original_voice` after runAndWait
GaAfterRun(r) ==
    IF r.original_voice # "None" THEN "ga_restorevoice" ELSE GaAfterRestoreVoice(r)

\* a faulty variant: the outer try lets the exception through to the caller
GaOuterExcept_Propagates(r) ==
    [r EXCEPT !.busy = FALSE, !.failed = TRUE, !.result = "raised", !.pc = "ga_exit"]

\* `except Exception as e: ... return None` of the outer try
GaOuterExcept(r) ==
    [r EXCEPT !.busy = FALSE, !.failed = TRUE, !.result = "None", !.pc = "ga_exit"]

\* generate_audio(text, output_path, speech_rate, voice_id) up to the with
\* statement: the call and its two early returns
generate_audio(text, speech_rate, voice_id) ==
    LET r == [IdleThread EXCEPT !.op = "generate_audio", !.text = text,
                  !.speech_rate = speech_rate, !.voice_id = voice_id]
    IN  IF Blank(text) \/ ~engine.ok
        THEN Done([r EXCEPT !.result = "None"])
        ELSE [r EXCEPT !.pc = "ga_lock"]

\* thread t calls generate_audio
GenerateAudio(t, text, speech_rate, voice_id) ==
    /\ th[t].pc = "idle"
    /\ Move(t, generate_audio(text, speech_rate, voice_id))
    /\ UNCHANGED <<engine, lock>>

\* with _tts_engine.lock:
GaAcquire(t) ==
    /\ th[t].pc = "ga_lock"
    /\ lock = 0
    /\ lock' = t
    /\ Move(t, [th[t] EXCEPT !.pc = "ga_mkdir", !.entry = [voice |-> engine.voice, rate |-> engine.rate]])
    /\ UNCHANGED engine

\* output_dir.mkdir(parents=True, exist_ok=True), then `if voice_id`
GaMkdir(t) ==
    /\ th[t].pc = "ga_mkdir"
    /\ \E ok \in BOOLEAN :
          IF ok
          THEN Move(t, [th[t] EXCEPT !.pc =
                   IF th[t].voice_id # "None" THEN "ga_getvoice"
                   ELSE GaAfterVoice(th[t])])
          ELSE Move(t, GaOuterExcept(th[t]))
    /\ UNCHANGED <<engine, lock>>

\* original_voice = engine.getProperty('voice'), inside the inner try
GaGetVoice(t) ==
    /\ Executing(t, "ga_getvoice")
    /\ \E ok \in BOOLEAN :
          IF ok
          THEN Move(t, [th[t] EXCEPT !.busy = FALSE,
                           !.original_voice = engine.voice, !.pc = "ga_setvoice"])
          ELSE Move(t, [th[t] EXCEPT !.busy = FALSE, !.swallowed = TRUE,
                           !.pc = GaAfterVoice(th[t])])
    /\ UNCHANGED <<engine, lock>>

\* _tts_engine.set_voice(voice_id), which catches what setProperty raises
GaSetVoice(t) ==
    /\ Executing(t, "ga_setvoice")
    /\ \E ok \in BOOLEAN :
          IF ok
          THEN /\ engine' = [engine EXCEPT !.voice = th[t].voice_id]
               /\ Move(t, [th[t] EXCEPT !.busy = FALSE, !.pc = GaAfterVoice(th[t])])
          ELSE /\ UNCHANGED engine
               /\ Move(t, [th[t] EXCEPT !.busy = FALSE, !.swallowed = TRUE,
                              !.pc = GaAfterVoice(th[t])])
    /\ UNCHANGED lock

\* original_rate = engine.getProperty('rate'), inside the inner try
GaGetRate(t) ==
    /\ Executing(t, "ga_getrate")
    /\ \E ok \in BOOLEAN :
          IF ok
          THEN Move(t, [th[t] EXCEPT !.busy = FALSE,
                           !.original_rate = engine.rate, !.pc = "ga_setrate"])
          ELSE Move(t, [th[t] EXCEPT !.busy = FALSE, !.swallowed = TRUE,
                           !.pc = "ga_save"])
    /\ UNCHANGED <<engine, lock>>

\* _tts_engine.set_speech_rate(speech_rate), which clamps and catches
GaSetRate(t) ==
    /\ Executing(t, "ga_setrate")
    /\ \E ok \in BOOLEAN :
          IF ok
          THEN /\ engine' = [engine EXCEPT !.rate = ClampRate(th[t].speech_rate)]
               /\ Move(t, [th[t] EXCEPT !.busy = FALSE, !.pc = "ga_save"])
          ELSE /\ UNCHANGED engine
               /\ Move(t, [th[t] EXCEPT !.busy = FALSE, !.swallowed = TRUE,
                              !.pc = "ga_save"])
    /\ UNCHANGED lock

\* engine.save_to_file(cleaned_text, output_path)
GaSave(t) ==
    /\ Executing(t, "ga_save")
    /\ \E ok \in BOOLEAN :
          IF ok
          THEN Move(t, [th[t] EXCEPT !.busy = FALSE, !.pc = "ga_run"])
          ELSE Move(t, GaOuterExcept(th[t]))
    /\ UNCHANGED <<engine, lock>>

\* engine.runAndWait(): it raises, or returns with the output file written
\* (non-empty) or not
GaRun(t) ==
    /\ Executing(t, "ga_run")
    /\ \E ok \in BOOLEAN, written \in BOOLEAN :
          IF ok
          THEN Move(t, [th[t] EXCEPT !.busy = FALSE, !.file = written,
                           !.pc = GaAfterRun(th[t])])
          ELSE Move(t, GaOuterExcept(th[t]))
    /\ UNCHANGED <<engine, lock>>

\* engine.setProperty('voice', original_voice)
GaRestoreVoice(t) ==
    /\ Executing(t, "ga_restorevoice")
    /\ \E ok \in BOOLEAN :
          IF ok
          THEN /\ engine' = [engine EXCEPT !.voice = th[t].original_voice]
               /\ Move(t, [th[t] EXCEPT !.busy = FALSE,
                              !.pc = GaAfterRestoreVoice(th[t])])
          ELSE /\ UNCHANGED engine
               /\ Move(t, GaOuterExcept(th[t]))
    /\ UNCHANGED lock

\* engine.setProperty('rate', original_rate)
GaRestoreRate(t) ==
    /\ Executing(t, "ga_restorerate")
    /\ \E ok \in BOOLEAN :
          IF ok
          THEN /\ engine' = [engine EXCEPT !.rate = th[t].original_rate]
               /\ Move(t, [th[t] EXCEPT !.busy = FALSE, !.pc = "ga_verify"])
          ELSE /\ UNCHANGED engine
               /\ Move(t, GaOuterExcept(th[t]))
    /\ UNCHANGED lock

\* os.path.exists(output_path) and os.path.getsize(output_path) > 0
GaVerify(t) ==
    /\ th[t].pc = "ga_verify"
    /\ Move(t, [th[t] EXCEPT !.pc = "ga_exit",
                   !.result = IF th[t].file THEN "output_path" ELSE "None"])
    /\ UNCHANGED <<engine, lock>>

\* leaving the with block on return
GaExit(t) ==
    /\ th[t].pc = "ga_exit"
    /\ lock' = 0
    /\ Move(t, Done(th[t]))
    /\ UNCHANGED engine

(* ---- speak_text ---- *)

SpAfterVoice(r) ==
    IF r.speech_rate # DefaultRate THEN "sp_getrate" ELSE "sp_say"

SpAfterRestoreVoice(r) ==
    IF r.original_rate # 0 THEN "sp_restorerate" ELSE "sp_exit"

SpAfterRun(r) ==
    IF r.original_voice # "None" THEN "sp_restorevoice" ELSE SpAfterRestoreVoice(r)

\* `return True` once the settings are restored
SpReturnTrue(r, next) ==
    [r EXCEPT !.busy = FALSE, !.pc = next,
              !.result = IF next = "sp_exit" THEN "True" ELSE r.result]

\* `except Exception as e: ... return False`
SpExcept(r) ==
    [r EXCEPT !.busy = FALSE, !.failed = TRUE, !.result = "False", !.pc = "sp_exit"]

\* speak_text(text, speech_rate, voice_id) up to the with statement: the
\* call and its two early returns
speak_text(text, speech_rate, voice_id) ==
    LET r == [IdleThread EXCEPT !.op = "speak_text", !.text = text,
                  !.speech_rate = speech_rate, !.voice_id = voice_id]
    IN  IF Blank(text) \/ ~engine.ok
        THEN Done([r EXCEPT !.result = "False"])
        ELSE [r EXCEPT !.pc = "sp_lock"]

\* thread t calls speak_text
SpeakText(t, text, speech_rate, voice_id) ==
    /\ th[t].pc = "idle"
    /\ Move(t, speak_text(text, speech_rate, voice_id))
    /\ UNCHANGED <<engine, lock>>

\* with _tts_engine.lock:, then `if voice_id`
SpAcquire(t) ==
    /\ th[t].pc = "sp_lock"
    /\ lock = 0
    /\ lock' = t
    /\ Move(t, [th[t] EXCEPT
           !.entry = [voice |-> engine.voice, rate |-> engine.rate],
           !.pc = IF th[t].voice_id # "None" THEN "sp_getvoice"
                  ELSE SpAfterVoice(th[t])])
    /\ UNCHANGED engine

\* original_voice = engine.getProperty('voice')
SpGetVoice(t) ==
    /\ Executing(t, "sp_getvoice")
    /\ \E ok \in BOOLEAN :
          IF ok
          THEN Move(t, [th[t] EXCEPT !.busy = FALSE,
                           !.original_voice = engine.voice, !.pc = "sp_setvoice"])
          ELSE Move(t, SpExcept(th[t]))
    /\ UNCHANGED <<engine, lock>>

\* _tts_engine.set_voice(voice_id)
SpSetVoice(t) ==
    /\ Executing(t, "sp_setvoice")
    /\ \E ok \in BOOLEAN :
          IF ok
          THEN /\ engine' = [engine EXCEPT !.voice = th[t].voice_id]
               /\ Move(t, [th[t] EXCEPT !.busy = FALSE, !.pc = SpAfterVoice(th[t])])
          ELSE /\ UNCHANGED engine
               /\ Move(t, [th[t] EXCEPT !.busy = FALSE, !.swallowed = TRUE,
                              !.pc = SpAfterVoice(th[t])])
    /\ UNCHANGED lock

\* original_rate = engine.getProperty('rate')
SpGetRate(t) ==
    /\ Executing(t, "sp_getrate")
    /\ \E ok \in BOOLEAN :
          IF ok
          THEN Move(t, [th[t] EXCEPT !.busy = FALSE,
                           !.original_rate = engine.rate, !.pc = "sp_setrate"])
          ELSE Move(t, SpExcept(th[t]))
    /\ UNCHANGED <<engine, lock>>

\* _tts_engine.set_speech_rate(speech_rate)
SpSetRate(t) ==
    /\ Executing(t, "sp_setrate")
    /\ \E ok \in BOOLEAN :
          IF ok
          THEN /\ engine' = [engine EXCEPT !.rate = ClampRate(th[t].speech_rate)]
               /\ Move(t, [th[t] EXCEPT !.busy = FALSE, !.pc = "sp_say"])
          ELSE /\ UNCHANGED engine
               /\ Move(t, [th[t] EXCEPT !.busy = FALSE, !.swallowed = TRUE,
                              !.pc = "sp_say"])
    /\ UNCHANGED lock

\* a faulty variant: say() queues the utterance and the call returns True without
\* running the engine loop
SpSay_NoWait(t) ==
    /\ Executing(t, "sp_say")
    /\ Move(t, SpReturnTrue(th[t], SpAfterRun(th[t])))
    /\ UNCHANGED <<engine, lock>>

\* engine.say(cleaned_text): the utterance is queued
SpSay(t) ==
    /\ Executing(t, "sp_say")
    /\ \E ok \in BOOLEAN :
          IF ok
          THEN Move(t, [th[t] EXCEPT !.busy = FALSE, !.pc = "sp_run"])
          ELSE Move(t, SpExcept(th[t]))
    /\ UNCHANGED <<engine, lock>>

\* engine.runAndWait(): returns when the queued utterance has been spoken
SpRun(t) ==
    /\ Executing(t, "sp_run")
    /\ \E ok \in BOOLEAN :
          IF ok
          THEN Move(t, SpReturnTrue([th[t] EXCEPT !.spoken = TRUE],
                                    SpAfterRun(th[t])))
          ELSE Move(t, SpExcept(th[t]))
    /\ UNCHANGED <<engine, lock>>

\* engine.setProperty('voice', original_voice)
SpRestoreVoice(t) ==
    /\ Executing(t, "sp_restorevoice")
    /\ \E ok \in BOOLEAN :
          IF ok
          THEN /\ engine' = [engine EXCEPT !.voice = th[t].original_voice]
               /\ Move(t, SpReturnTrue(th[t], SpAfterRestoreVoice(th[t])))
          ELSE /\ UNCHANGED engine
               /\ Move(t, SpExcept(th[t]))
    /\ UNCHANGED lock

\* engine.setProperty('rate', original_rate)
SpRestoreRate(t) ==
    /\ Executing(t, "sp_restorerate")
    /\ \E ok \in BOOLEAN :
          IF ok
          THEN /\ engine' = [engine EXCEPT !.rate = th[t].original_rate]
               /\ Move(t, SpReturnTrue(th[t], "sp_exit"))
          ELSE /\ UNCHANGED engine
               /\ Move(t, SpExcept(th[t]))
    /\ UNCHANGED lock

\* a faulty variant: the lock is released on the `return True` path only
SpExit_KeepsLockOnFailure(t) ==
    /\ th[t].pc = "sp_exit"
    /\ lock' = IF th[t].result = "True" THEN 0 ELSE lock
    /\ Move(t, Done(th[t]))
    /\ UNCHANGED engine

\* leaving the with block on return
SpExit(t) ==
    /\ th[t].pc = "sp_exit"
    /\ lock' = 0
    /\ Move(t, Done(th[t]))
    /\ UNCHANGED engine

(* ---- get_available_voices ---- *)

\* get_available_voices() at its first statement;
\* `if not self.engine: return []`
get_available_voices ==
    LET r == [IdleThread EXCEPT !.op = "get_available_voices"]
    IN  IF ~engine.ok
        THEN Done([r EXCEPT !.result = "[]"])
        ELSE [r EXCEPT !.pc = "gv_getvoices"]

\* the call
GetAvailableVoices(t) ==
    /\ th[t].pc = "idle"
    /\ Move(t, get_available_voices)
    /\ UNCHANGED <<engine, lock>>

\* voices = self.engine.getProperty('voices'), no lock taken
GvGetVoices(t) ==
    /\ Executing(t, "gv_getvoices")
    /\ \E ok \in BOOLEAN :
          IF ok
          THEN Move(t, Done([th[t] EXCEPT !.result = "voices"]))
          ELSE Move(t, Done([th[t] EXCEPT !.result = "[]"]))
    /\ UNCHANGED <<engine, lock>>

\* the caller takes the result
Returned(t) ==
    /\ th[t].pc = "done"
    /\ Move(t, IdleThread)
    /\ UNCHANGED <<engine, lock>>

TtsCall(t) ==
    \E text \in TtsTexts, speech_rate \in Rates, voice_id \in VoiceIds :
        \/ GenerateAudio(t, text, speech_rate, voice_id)
        \/ SpeakText(t, text, speech_rate, voice_id)

-----------------------------------------------------------------------------
(* rewrite.py: validate_inputs, initialize_model, rewrite_text *)

\* validate_inputs: minimum stripped length, creativity range (in tenths),
\* max_tokens range
MinTextLen == 5
MinCreativity10 == 1
MaxCreativity10 == 20
MinTokens == 10
MaxTokens == 2048
\* rewrite_text: texts longer than LongText are rewritten in chunks of
\* ChunkSize, each with ChunkBonus tokens above its share
LongText == 500
ChunkSize == 400
ChunkBonus == 50

\* valid_tones
ValidTones ==
    {<<"n", "e", "u", "t", "r", "a", "l">>,
     <<"p", "r", "o", "f", "e", "s", "s", "i", "o", "n", "a", "l">>,
     <<"c", "a", "s", "u", "a", "l">>,
     <<"a", "c", "a", "d", "e", "m", "i", "c">>,
     <<"c", "r", "e", "a", "t", "i", "v", "e">>,
     <<"f", "o", "r", "m", "a", "l">>,
     <<"h", "a", "p", "p", "y">>,
     <<"s", "a", "d">>,
     <<"a", "n", "g", "r", "y">>}

\* tone.lower()
ToneLower(tone) == [i \in 1..Len(tone) |-> Lower(tone[i])]

\* validate_inputs: the exception it raises ("none" when it returns) and the
\* tone it returns
validate_inputs(text, tone, creativity10, max_tokens) ==
    IF Blank(text) THEN [raises |-> "ValueError", tone |-> tone]
    ELSE IF Len(Strip(text)) < MinTextLen THEN [raises |-> "ValueError", tone |-> tone]
    ELSE IF ~(MinCreativity10 <= creativity10 /\ creativity10 <= MaxCreativity10)
    THEN [raises |-> "ValueError", tone |-> tone]
    ELSE IF ~(MinTokens <= max_tokens /\ max_tokens <= MaxTokens)
    THEN [raises |-> "ValueError", tone |-> tone]
    ELSE IF ToneLower(tone) \notin ValidTones
    THEN [raises |-> "none", tone |-> <<"n", "e", "u", "t", "r", "a", "l">>]
    ELSE [raises |-> "none", tone |-> ToneLower(tone)]

\* post_process_text: one sentence of the capitalization loop, <<>> when the
\* sentence is dropped
CleanSentence(raw) ==
    LET sentence == Strip(raw)
    IN  IF sentence # <<>> /\ Len(sentence) > 1
        THEN <<Upper(sentence[1]) \o Tail(sentence)>>
        ELSE <<>>

RECURSIVE CleanSentences(_)
CleanSentences(sentences) ==
    IF sentences = <<>> THEN <<>>
    ELSE CleanSentence(Head(sentences)) \o CleanSentences(Tail(sentences))

post_process_text(text) ==
    IF text = <<>> THEN text
    ELSE LET t1 == ReplaceAll(text, <<" ", " ">>, <<" ">>)
             t2 == ReplaceAll(t1, <<" ", ".">>, <<".">>)
             t3 == ReplaceAll(t2, <<" ", ",">>, <<",">>)
             t4 == ReplaceAll(t3, <<" ", "!">>, <<"!">>)
             t5 == ReplaceAll(t4, <<" ", "?">>, <<"?">>)
         IN  Join(<<".", " ">>, CleanSentences(SplitStr(t5, <<".", " ">>)))

\* max_new_tokens of one chunk: min(max_tokens // len(chunks) + 50, max_tokens)
ChunkBudget(max_tokens, n) ==
    LET share == (max_tokens \div n) + ChunkBonus
    IN  IF share < max_tokens THEN share ELSE max_tokens

\* the outer handlers of rewrite_text: ValueError is re-raised, everything
\* else becomes RuntimeError
RewriteOuterExcept(kind) ==
    IF kind = "ValueError" THEN "ValueError" ELSE "RuntimeError"

\* a handler that lets the loading error through as it is
InitializeModelExcept_Unwrapped(kind) == kind

\* initialize_model's handler: whatever loading raises becomes RuntimeError
InitializeModelExcept(kind) == "RuntimeError"

\* the short path's handler: whatever the pipeline raises becomes RuntimeError
ShortPathExcept(kind) == "RuntimeError"

\* rewrite_text is not running
IdleRewrite ==
    [pc |-> "idle", text |-> <<>>, tone |-> <<"N", "e", "u", "t", "r", "a", "l">>, creativity10 |-> 7,
     max_tokens |-> 256, stripped |-> <<>>, chunks |-> <<>>,
     rewritten_chunks |-> <<>>, budgets |-> <<>>, final_result |-> <<>>,
     outcome |-> "none", result |-> <<>>,
     \* history of the call, for the properties: whether initialize_model
     \* was called, the number of pipeline calls, which chunks' generation
     \* raised, and final_result before post-processing on the long path
     initialized |-> FALSE, invoked |-> 0, raised |-> <<>>, combined |-> <<>>]

\* the threads that call initialize_model: the rewrite_text call of rw, at
\* line 180, and another thread of the process (another session's rerun);
\* the function takes no lock
RwCaller == "rewrite_text"
OtherCaller == "other_thread"
Callers == {RwCaller, OtherCaller}

\* initialize_model is not running
IdleInitialize ==
    [pc |-> "idle", outcome |-> "none", result |-> "None",
     \* history of the call, for the properties: what the test of line 29
     \* read, and what the call did: "cached" (returned the loaded
     \* pipeline), "loaded" or "failed"
     entry_pipeline |-> "None", load |-> "none"]

\* arguments of rewrite_text: blank, too short, short without and with blanks
\* around it, and long texts: three
\* sentences of 199 characters, a short sentence before a long one, one
\* sentence of eleven long words, one word, and blanks between two dots
RwTexts ==
    LET Sentence199 ==
            Repeat(<<"w", "o", "r", "d", " ">>, 39) \o <<"w", "o", "r", "d">>
        Word49 == Repeat(<<"w">>, 49)
    IN
    {<<>>,
     <<" ", " ">>,
     <<" ", "a", "b", "c", " ">>,
     <<"h", "e", "l", "l", "o", " ", "y", "o", "u", ".">>,
     <<" ", "h", "e", "l", "l", "o", " ", "y", "o", "u", ".", " ">>,
     Sentence199 \o <<".", " ">> \o Sentence199 \o <<".", " ">> \o Sentence199 \o <<".">>,
     <<"H", "i", ".", " ">> \o Repeat(<<"w", "o", "r", "d", " ">>, 120),
     Repeat(Word49 \o <<" ">>, 10) \o Word49,
     Repeat(<<"a">>, 501),
     <<".">> \o Repeat(<<" ">>, 499) \o <<".">>}
RwTones == {<<"P", "r", "o", "f", "e", "s", "s", "i", "o", "n", "a", "l">>,
            <<"P", "i", "r", "a", "t", "e">>}
Creativities10 == {0, 1, 20, 21}
TokenLimits == {9, 10, 2048, 2049}

\* what the pipeline generates (with a form feed and a no-break space
\* around one text, and sentences that begin with letters outside ASCII in
\* another), and what it or the loaders may raise
Generated ==
    {<<>>,
     <<"o", "k">>,
     <<"\f", "h", "i", " ", " ", "t", "h", "e", "r", "e", " ", ".", " ">>,
     <<"n", "e", "w", " ", "t", "e", "x", "t", ".", " ", "ß", "t", ".", " ",
       "é", "t", "é">>}
Raised == {"ValueError", "OSError"}

RwInit ==
    /\ rewrite_pipeline = "None"
    /\ rewrite_tokenizer = "None"
    /\ rewrite_model = "None"
    /\ rw = IdleRewrite
    /\ im = [c \in Callers |-> IdleInitialize]

RwIdle == RwInit

\* rewrite_text(text, tone, creativity, max_tokens) at its first statement
rewrite_text(text, tone, creativity10, max_tokens) ==
    [IdleRewrite EXCEPT !.pc = "validate", !.text = text, !.tone = tone,
                        !.creativity10 = creativity10,
                        !.max_tokens = max_tokens]

\* rewrite_text(text, tone, creativity, max_tokens) is called
RewriteText(text, tone, creativity10, max_tokens) ==
    /\ rw.pc = "idle"
    /\ rw' = rewrite_text(text, tone, creativity10, max_tokens)
    /\ UNCHANGED <<rwGlobals, im>>
    /\ UNCHANGED notRw

\* the call raises kind out of the outer try
RwRaise(r, kind) ==
    [r EXCEPT !.pc = "done", !.outcome = RewriteOuterExcept(kind)]

\* tone = validate_inputs(text, tone, creativity, max_tokens)
RwValidate ==
    /\ rw.pc = "validate"
    /\ LET v == validate_inputs(rw.text, rw.tone, rw.creativity10, rw.max_tokens)
       IN  IF v.raises # "none"
           THEN rw' = RwRaise(rw, v.raises)
           ELSE rw' = [rw EXCEPT !.pc = "initialize", !.tone = v.tone]
    /\ UNCHANGED <<rwGlobals, im>>
    /\ UNCHANGED notRw

\* after initialize_model: text = text.strip(); the long path chunks it
RwAfterInitialize(r) ==
    LET text == Strip(r.text)
    IN  IF Len(text) > LongText
        THEN [r EXCEPT !.stripped = text, !.chunks = chunk_text(text, ChunkSize),
                       !.pc = "chunks"]
        ELSE [r EXCEPT !.stripped = text, !.pc = "short"]

\* `if _rewrite_pipeline is not None`
PipelineLoaded(p) == p # "None"

\* get_model_info()
get_model_info == [is_loaded |-> rewrite_pipeline # "None"]

\* the pipeline object that caller c's pipeline(...) creates
PipelineBy(c) == IF c = RwCaller THEN "pipeline" ELSE "pipeline2"

\* initialize_model is entered, `if _rewrite_pipeline is not None:` (line
\* 29): the call goes to the return of line 30, or the try block begins
InitializeModel(c) ==
    IF PipelineLoaded(rewrite_pipeline)
    THEN [IdleInitialize EXCEPT !.pc = "cached",
                                !.entry_pipeline = rewrite_pipeline]
    ELSE [IdleInitialize EXCEPT !.pc = "tokenizer",
                                !.entry_pipeline = rewrite_pipeline]

\* initialize_model's handler: the exception of a load becomes RuntimeError
ImExcept(r, kind) ==
    [r EXCEPT !.pc = "done", !.outcome = InitializeModelExcept(kind),
              !.load = "failed"]

\* pipeline_model = initialize_model(), up to and with the test of line 29
RwInitializeModel ==
    /\ rw.pc = "initialize"
    /\ im[RwCaller].pc = "idle"
    /\ rw' = [rw EXCEPT !.pc = "initializing", !.initialized = TRUE]
    /\ im' = [im EXCEPT ![RwCaller] = InitializeModel(RwCaller)]
    /\ UNCHANGED rwGlobals
    /\ UNCHANGED notRw

\* another thread calls initialize_model, up to and with the test of line 29
OtherInitializeModel ==
    /\ im[OtherCaller].pc = "idle"
    /\ im' = [im EXCEPT ![OtherCaller] = InitializeModel(OtherCaller)]
    /\ UNCHANGED <<rwGlobals, rw>>
    /\ UNCHANGED notRw

\* _tokenizer = AutoTokenizer.from_pretrained(...)
ImLoadTokenizer(c) ==
    /\ im[c].pc = "tokenizer"
    /\ \/ /\ rewrite_tokenizer' = "tokenizer"
          /\ im' = [im EXCEPT ![c].pc = "model"]
       \/ \E kind \in Raised :
             /\ im' = [im EXCEPT ![c] = ImExcept(@, kind)]
             /\ UNCHANGED rewrite_tokenizer
    /\ UNCHANGED <<rewrite_pipeline, rewrite_model, rw>>
    /\ UNCHANGED notRw

\* _model = AutoModelForSeq2SeqLM.from_pretrained(...)
ImLoadModel(c) ==
    /\ im[c].pc = "model"
    /\ \/ /\ rewrite_model' = "model"
          /\ im' = [im EXCEPT ![c].pc = "to"]
       \/ \E kind \in Raised :
             /\ im' = [im EXCEPT ![c] = ImExcept(@, kind)]
             /\ UNCHANGED rewrite_model
    /\ UNCHANGED <<rewrite_pipeline, rewrite_tokenizer, rw>>
    /\ UNCHANGED notRw

\* `if DEVICE == "cpu": _model = _model.to(DEVICE)`
ImToDevice(c) ==
    /\ im[c].pc = "to"
    /\ \/ /\ rewrite_model' = "model"
          /\ im' = [im EXCEPT ![c].pc = "pipeline"]
       \/ \E kind \in Raised :
             /\ im' = [im EXCEPT ![c] = ImExcept(@, kind)]
             /\ UNCHANGED rewrite_model
    /\ UNCHANGED <<rewrite_pipeline, rewrite_tokenizer, rw>>
    /\ UNCHANGED notRw

\* `return _rewrite_pipeline` of line 30: the global is read again, after
\* the test of line 29
ImReturnCached(c) ==
    /\ im[c].pc = "cached"
    /\ im' = [im EXCEPT ![c].pc = "done", ![c].outcome = "returned",
                        ![c].result = rewrite_pipeline,
                        ![c].load = "cached"]
    /\ UNCHANGED <<rwGlobals, rw>>
    /\ UNCHANGED notRw

\* _rewrite_pipeline = pipeline(...), line 54: the global is assigned
ImCreatePipeline(c) ==
    /\ im[c].pc = "pipeline"
    /\ \/ /\ rewrite_pipeline' = PipelineBy(c)
          /\ im' = [im EXCEPT ![c].pc = "loaded", ![c].load = "loaded"]
       \/ \E kind \in Raised :
             /\ im' = [im EXCEPT ![c] = ImExcept(@, kind)]
             /\ UNCHANGED rewrite_pipeline
    /\ UNCHANGED <<rewrite_tokenizer, rewrite_model, rw>>
    /\ UNCHANGED notRw

\* logger.info("Model loaded successfully"); return _rewrite_pipeline, lines
\* 61 and 62: the global is read again, after the assignment of line 54
ImReturnLoaded(c) ==
    /\ im[c].pc = "loaded"
    /\ im' = [im EXCEPT ![c].pc = "done", ![c].outcome = "returned",
                        ![c].result = rewrite_pipeline]
    /\ UNCHANGED <<rwGlobals, rw>>
    /\ UNCHANGED notRw

\* initialize_model has ended in rewrite_text: its exception reaches the
\* outer handler, or the text is stripped and the path chosen
RwInitialized ==
    /\ rw.pc = "initializing"
    /\ im[RwCaller].pc = "done"
    /\ rw' = IF im[RwCaller].outcome = "returned"
             THEN RwAfterInitialize(rw)
             ELSE RwRaise(rw, im[RwCaller].outcome)
    /\ im' = [im EXCEPT ![RwCaller] = IdleInitialize]
    /\ UNCHANGED rwGlobals
    /\ UNCHANGED notRw

\* the other thread takes the pipeline or the exception
OtherReturned ==
    /\ im[OtherCaller].pc = "done"
    /\ im' = [im EXCEPT ![OtherCaller] = IdleInitialize]
    /\ UNCHANGED <<rwGlobals, rw>>
    /\ UNCHANGED notRw

\* a faulty variant: the post-processed text is returned whatever its length
RwPostProcess_Unchecked(r, final_result) ==
    LET final == post_process_text(final_result)
    IN  [r EXCEPT !.final_result = final, !.pc = "done",
                  !.outcome = "returned", !.result = final]

\* final_result = post_process_text(final_result), and the output check
RwPostProcess(r, final_result) ==
    LET final == post_process_text(final_result)
    IN  IF final = <<>> \/ Len(Strip(final)) < MinTextLen
        THEN [r EXCEPT !.final_result = final, !.pc = "done",
                       !.outcome = "returned", !.result = r.stripped]
        ELSE [r EXCEPT !.final_result = final, !.pc = "done",
                       !.outcome = "returned", !.result = final]

\* the short path: one pipeline call with max_new_tokens = max_tokens, the
\* pipeline generating one of the texts of generated or raising
ShortPath(generated) ==
    /\ rw.pc = "short"
    /\ LET r == [rw EXCEPT !.invoked = rw.invoked + 1,
                           !.budgets = Append(rw.budgets, rw.max_tokens)]
       IN  \/ \E text \in generated : rw' = RwPostProcess(r, Strip(text))
           \/ \E kind \in Raised : rw' = RwRaise(r, ShortPathExcept(kind))
    /\ UNCHANGED <<rwGlobals, im>>
    /\ UNCHANGED notRw

RwShort == ShortPath(Generated)

\* a faulty variant: the chunk's exception ends the rewrite
ChunkExcept_Raises(r, chunk) == RwRaise(r, "RuntimeError")

\* the long path's handler: `rewritten_chunks.append(chunk)`
ChunkExcept(r, chunk) ==
    [r EXCEPT !.rewritten_chunks = Append(@, chunk), !.raised = Append(@, TRUE)]

\* the long path, one chunk: the pipeline's stripped output, or the chunk
\* itself when the pipeline raises
RwChunk ==
    /\ rw.pc = "chunks"
    /\ Len(rw.rewritten_chunks) < Len(rw.chunks)
    /\ LET n == Len(rw.chunks)
           chunk == rw.chunks[Len(rw.rewritten_chunks) + 1]
           r == [rw EXCEPT !.invoked = rw.invoked + 1,
                           !.budgets = Append(rw.budgets,
                                              ChunkBudget(rw.max_tokens, n))]
       IN  \/ \E text \in Generated :
                 rw' = [r EXCEPT !.rewritten_chunks = Append(@, Strip(text)),
                                 !.raised = Append(@, FALSE)]
           \/ \E kind \in Raised : rw' = ChunkExcept(r, chunk)
    /\ UNCHANGED <<rwGlobals, im>>
    /\ UNCHANGED notRw

\* the long path after the loop: final_result = " ".join(rewritten_chunks)
RwCombine ==
    /\ rw.pc = "chunks"
    /\ Len(rw.rewritten_chunks) = Len(rw.chunks)
    /\ LET final_result == Join(<<" ">>, rw.rewritten_chunks)
       IN  rw' = RwPostProcess([rw EXCEPT !.combined = final_result], final_result)
    /\ UNCHANGED <<rwGlobals, im>>
    /\ UNCHANGED notRw

\* the caller takes the result or the exception
RwReturned ==
    /\ rw.pc = "done"
    /\ rw' = IdleRewrite
    /\ UNCHANGED <<rwGlobals, im>>
    /\ UNCHANGED notRw

-----------------------------------------------------------------------------
(* app.py: one Streamlit session; every interaction reruns the script *)

\* history[-n:]
LastN(h, n) == IF Len(h) <= n THEN h ELSE SubSeq(h, Len(h) - n + 1, Len(h))

\* reversed(h)
Reversed(h) == [i \in 1..Len(h) |-> h[Len(h) + 1 - i]]

\* how many entries the panel shows: history[-5:]
PanelSize == 5

\* a faulty variant: the rows are numbered from the top, "Entry {i + 1}"
HistorySection_LabelFromTop(h, save_history) ==
    IF save_history /\ h # <<>>
    THEN LET shown == Reversed(LastN(h, PanelSize))
         IN  [shown |-> TRUE,
              rows  |-> [k \in 1..Len(shown) |->
                            [label |-> k, entry |-> shown[k]]]]
    ELSE [shown |-> FALSE, rows |-> <<>>]

\* the History section: under `if save_history and history`, one row per
\* entry of reversed(history[-5:]), headed "Entry {len(history) - i}" for
\* the i-th row counted from 0
HistorySection(h, save_history) ==
    IF save_history /\ h # <<>>
    THEN LET shown == Reversed(LastN(h, PanelSize))
         IN  [shown |-> TRUE,
              rows  |-> [k \in 1..Len(shown) |->
                            [label |-> Len(h) - (k - 1), entry |-> shown[k]]]]
    ELSE [shown |-> FALSE, rows |-> <<>>]

\* texts typed or uploaded, and what the pipeline generates for them
UiTexts == {<<>>, <<"h", "e", "l", "l", "o">>}
Rewrites == {<<"H", "e", "l", "l", "o">>}

\* the options of the "Input Method" radio
TypeText == "Type/Paste Text"
UploadFile == "Upload File"
FromHistory == "Load from History"
InputMethods == {TypeText, UploadFile, FromHistory}

\* the thread that runs this session's script, and the thread that runs the
\* script of another session of the same Streamlit process: the globals of
\* rewrite.py and _tts_engine are the process's, the session state is not
SessionThread == 1
OtherThread == 2

\* the sidebar defaults, the first input method and an empty text area; the
\* sliders (speech rate 180 among them), the tone, the voice selectbox
\* ("Default", so voice_id is None) and the "Show performance metrics"
\* checkbox stay at their defaults.  text_input is
\* the script's variable as the last run left it; options and selected are
\* the "Select from history" selectbox as the last run rendered it (no
\* options and 0 when it did not)
DefaultWidgets ==
    [input_method |-> TypeText, text_input |-> <<>>,
     options |-> <<>>, selected |-> 0,
     tone |-> <<"N", "e", "u", "t", "r", "a", "l">>, creativity10 |-> 7,
     max_tokens |-> 512, save_history |-> TRUE, show_metrics |-> TRUE]

UiInit ==
    /\ history = <<>>
    /\ current_audio = "None"
    /\ processing_time = {}
    /\ widgets = DefaultWidgets
    /\ event = "none"
    /\ script = "unloaded"
    /\ panel = HistorySection(<<>>, TRUE)
    /\ now = 1

UiIdle == UiInit

\* history_options: one label per entry, made of its position and the
\* beginning of its original text
HistoryOptions(h) == [i \in 1..Len(h) |-> h[i].original]

\* the input section of a run, for the widget values w and the history h the
\* sidebar left: the text area and the uploader keep their content; "Load
\* from History" reads the selected entry, the first one when the selectbox
\* is new or its options have changed, and leaves text_input empty when
\* there is no history
InputSection(w, h) ==
    IF w.input_method # FromHistory THEN w
    ELSE IF h = <<>>
    THEN [w EXCEPT !.text_input = <<>>, !.options = <<>>, !.selected = 0]
    ELSE LET idx == IF w.options = HistoryOptions(h) /\ w.selected \in 1..Len(h)
                    THEN w.selected ELSE 1
         IN  [w EXCEPT !.text_input = h[idx].original,
                       !.options = HistoryOptions(h), !.selected = idx]

\* the buttons of the processing section
ProcessingButtons ==
    {"rewrite_only", "rewrite_and_audio", "audio_only", "quick_speak"}

\* a run of the script begins, for the interaction ev and with the widget
\* values w the browser sent: the session state is there (lines 56 to 61),
\* the sliders and the tone are read, and the run calls
\* get_available_voices() at line 89.  The page keeps the panel of the run
\* before until this run renders its own
RunScript(ev, w) ==
    /\ event' = ev
    /\ widgets' = w
    /\ script' = "get_available_voices"
    /\ th' = [th EXCEPT ![SessionThread] = get_available_voices]
    /\ UNCHANGED <<history, current_audio, processing_time, panel, now>>
    /\ UNCHANGED <<chunkVars, rwVars, engine, lock>>

\* the page is opened: the session's first run
Load ==
    /\ script = "unloaded"
    /\ RunScript("load", widgets)

\* an interaction reruns the script; the user interacts when the previous
\* run is over
Rerun(ev, w) ==
    /\ script = "idle"
    /\ RunScript(ev, w)

\* time passes, between the runs and during them
Tick ==
    /\ now < MaxTime
    /\ now' = now + 1
    /\ UNCHANGED <<history, current_audio, processing_time, widgets, event,
                   script, panel>>
    /\ UNCHANGED notUi

\* the user picks another input method: the widgets of the branch left are
\* not rendered and lose their content
SetInputMethod(method) ==
    /\ method # widgets.input_method
    /\ Rerun("input_method",
             [widgets EXCEPT !.input_method = method, !.text_input = <<>>,
                             !.options = <<>>, !.selected = 0])

\* the user edits the text area
SetText(text) ==
    /\ widgets.input_method = TypeText
    /\ text # widgets.text_input
    /\ Rerun("text", [widgets EXCEPT !.text_input = text])

\* the user uploads a file, or removes it (text = <<>>)
Upload(text) ==
    /\ widgets.input_method = UploadFile
    /\ text # widgets.text_input
    /\ Rerun("upload", [widgets EXCEPT !.text_input = text])

\* "Load from History": the user selects another option of the selectbox
LoadFromHistory(idx) ==
    /\ widgets.input_method = FromHistory
    /\ idx \in 1..Len(widgets.options)
    /\ idx # widgets.selected
    /\ Rerun("load_history", [widgets EXCEPT !.selected = idx])

\* the "Save processing history" checkbox
ToggleSaveHistory ==
    Rerun("save_history",
          [widgets EXCEPT !.save_history = ~widgets.save_history])

\* the Clear History button is pressed
ClearHistory == Rerun("clear_history", widgets)

\* a button of the processing section was enabled when the page was last
\* rendered, and the run it starts passes `if text_input.strip()`
Clicked(w) == ~Blank(widgets.text_input) /\ ~Blank(w.text_input)

\* a button of the processing section is pressed
ButtonRun(ev) ==
    /\ Clicked(InputSection(widgets, history))
    /\ Rerun(ev, widgets)

\* Rewrite Only
RewriteOnly == Len(history) < MaxSaved /\ ButtonRun("rewrite_only")

\* Rewrite + Audio
RewriteAndAudio == Len(history) < MaxSaved /\ ButtonRun("rewrite_and_audio")

\* Audio Only
AudioOnly == ButtonRun("audio_only")

\* Quick Speak
QuickSpeak == ButtonRun("quick_speak")

\* `if st.button("Clear History"): st.session_state.history = []`, in the
\* sidebar, before the input section of the same run
ClearHistoryButton(ev, h) == IF ev = "clear_history" THEN <<>> ELSE h

\* get_available_voices has returned in the session's run: the run goes
\* through the rest of the sidebar and the input section, down to the
\* processing section.  The voice selectbox stays at "Default", whatever
\* voices were returned
VoicesReturned ==
    /\ script = "get_available_voices"
    /\ th[SessionThread].pc = "done"
    /\ history' = ClearHistoryButton(event, history)
    /\ widgets' = InputSection(widgets, history')
    /\ UNCHANGED <<current_audio, processing_time, now>>
    /\ UNCHANGED <<chunkVars, rwGlobals, im, engine, lock>>

\* the run has reached the end of the script: the History section is
\* rendered and the session waits for the next interaction, no button
\* pressed
EndOfRun(h) ==
    /\ script' = "idle"
    /\ event' = "none"
    /\ panel' = HistorySection(h, widgets.save_history)

\* a run in which no button of the processing section is pressed goes from
\* the input section to the last line of the script
RenderOnly ==
    /\ event \notin ProcessingButtons
    /\ VoicesReturned
    /\ th' = [th EXCEPT ![SessionThread] = IdleThread]
    /\ EndOfRun(history')
    /\ UNCHANGED rw

\* the run reaches rewrite_text(text_input, tone=tone, creativity=creativity,
\* max_tokens=max_tokens)
CallRewriteText ==
    /\ event \in {"rewrite_only", "rewrite_and_audio"}
    /\ VoicesReturned
    /\ th' = [th EXCEPT ![SessionThread] = IdleThread]
    /\ script' = "rewrite_text"
    /\ rw' = rewrite_text(widgets'.text_input, widgets'.tone,
                          widgets'.creativity10, widgets'.max_tokens)
    /\ UNCHANGED <<event, panel>>

\* the run reaches generate_audio(text_input, output_filename, speech_rate,
\* voice_id)
CallGenerateAudio ==
    /\ event = "audio_only"
    /\ VoicesReturned
    /\ script' = "generate_audio"
    /\ th' = [th EXCEPT ![SessionThread] =
                 generate_audio(widgets'.text_input, DefaultRate, "None")]
    /\ UNCHANGED <<rw, event, panel>>

\* the run reaches speak_text(text_input, speech_rate, voice_id)
CallSpeakText ==
    /\ event = "quick_speak"
    /\ VoicesReturned
    /\ script' = "speak_text"
    /\ th' = [th EXCEPT ![SessionThread] =
                 speak_text(widgets'.text_input, DefaultRate, "None")]
    /\ UNCHANGED <<rw, event, panel>>

\* the history entry of a rewrite
HistoryEntry(w, rewritten) ==
    [timestamp |-> now, original |-> w.text_input, rewritten |-> rewritten,
     settings |-> [tone |-> w.tone, creativity10 |-> w.creativity10,
                   max_tokens |-> w.max_tokens]]

\* a faulty variant: the new entry is put first
SaveToHistory_Prepend(h, w, rewritten) ==
    IF w.save_history THEN <<HistoryEntry(w, rewritten)>> \o h ELSE h

\* `if save_history: st.session_state.history.append(history_entry)`
SaveToHistory(h, w, rewritten) ==
    IF w.save_history THEN Append(h, HistoryEntry(w, rewritten)) ELSE h

\* processing_time[key] = ... under `if show_metrics`
Timed(pt, key) == IF widgets.show_metrics THEN pt \cup {key} ELSE pt

\* rewrite_text has ended in the session's run.  When it raised, the handler
\* of the processing block shows the error.  When it returned, the rewrite
\* is timed and saved, and Rewrite + Audio goes on to
\* generate_audio(rewritten, output_filename, speech_rate, voice_id)
RewriteReturned ==
    /\ script = "rewrite_text"
    /\ rw.pc = "done"
    /\ rw' = IdleRewrite
    /\ IF rw.outcome # "returned"
       THEN /\ EndOfRun(history)
            /\ UNCHANGED <<history, processing_time, th>>
       ELSE /\ processing_time' = Timed(processing_time, "rewrite")
            /\ history' = SaveToHistory(history, widgets, rw.result)
            /\ IF event = "rewrite_and_audio"
               THEN /\ script' = "generate_audio"
                    /\ th' = [th EXCEPT ![SessionThread] =
                                 generate_audio(rw.result, DefaultRate, "None")]
                    /\ UNCHANGED <<event, panel>>
               ELSE /\ EndOfRun(history')
                    /\ UNCHANGED th
    /\ UNCHANGED <<current_audio, widgets, now>>
    /\ UNCHANGED <<chunkVars, rwGlobals, im, engine, lock>>

\* generate_audio has returned in the session's run: the audio is timed,
\* and a path that is returned becomes current_audio
AudioReturned ==
    /\ script = "generate_audio"
    /\ th[SessionThread].pc = "done"
    /\ th' = [th EXCEPT ![SessionThread] = IdleThread]
    /\ processing_time' = Timed(processing_time, "audio")
    /\ current_audio' = IF th[SessionThread].result = "output_path"
                        THEN "file" ELSE current_audio
    /\ EndOfRun(history)
    /\ UNCHANGED <<history, widgets, now>>
    /\ UNCHANGED <<chunkVars, rwVars, engine, lock>>

\* speak_text has returned in the session's run, with True or False
SpeakReturned ==
    /\ script = "speak_text"
    /\ th[SessionThread].pc = "done"
    /\ th' = [th EXCEPT ![SessionThread] = IdleThread]
    /\ EndOfRun(history)
    /\ UNCHANGED <<history, current_audio, processing_time, widgets, now>>
    /\ UNCHANGED <<chunkVars, rwVars, engine, lock>>

\* the histories a session can hold when its run reaches the History
\* section: entries with a non-blank original, what rewrite_text returned
\* for it (a generation, or the stripped original when the generation was
\* too short), the default settings and the instant of the rewrite, in the
\* order of their instants
SavedEntries ==
    UNION {{[timestamp |-> t, original |-> o, rewritten |-> r,
             settings |-> [tone |-> DefaultWidgets.tone,
                           creativity10 |-> DefaultWidgets.creativity10,
                           max_tokens |-> DefaultWidgets.max_tokens]] :
               r \in Rewrites \cup {Strip(o)}} :
           t \in 1..MaxTime, o \in {x \in UiTexts : ~Blank(x)}}

Histories ==
    UNION {{h \in [1..n -> SavedEntries] :
               \A i \in 1..(n - 1) : h[i].timestamp <= h[i + 1].timestamp} :
           n \in 0..MaxEntries}

\* a run of the script stands before the History section, with any history
\* and either value of the "Save processing history" checkbox
PanelInit ==
    /\ history \in Histories
    /\ widgets \in {[DefaultWidgets EXCEPT !.save_history = b] : b \in BOOLEAN}
    /\ script = "history_section"
    /\ panel = HistorySection(<<>>, TRUE)
    /\ current_audio = "None"
    /\ processing_time = {}
    /\ event = "load"
    /\ now = MaxTime

\* `if save_history and st.session_state.history:` and the loop under it
RenderHistory ==
    /\ script = "history_section"
    /\ EndOfRun(history)
    /\ UNCHANGED <<history, current_audio, processing_time, widgets, now>>
    /\ UNCHANGED notUi

\* the pipeline call of the session's rewrite_text
SessionShortPath == ShortPath(Rewrites)

\* the other session's run reaches initialize_model in its rewrite_text
OtherSessionRewrite ==
    /\ th[OtherThread].pc = "idle"
    /\ OtherInitializeModel

\* the other session's run reaches get_available_voices, at line 89
OtherSessionVoices ==
    /\ im[OtherCaller].pc = "idle"
    /\ GetAvailableVoices(OtherThread)

\* the other session's run reaches generate_audio, with its widgets at
\* their defaults
OtherSessionAudio ==
    /\ im[OtherCaller].pc = "idle"
    /\ GenerateAudio(OtherThread, <<"h", "i">>, DefaultRate, "None")

-----------------------------------------------------------------------------
(* Specifications *)

InitChunk == ChunkInit /\ TtsIdle /\ UiIdle /\ RwIdle
NextChunk == ChunkText
SpecChunk == InitChunk /\ [][NextChunk]_vars

InitTTS == TtsInit /\ ChunkIdle /\ UiIdle /\ RwIdle
NextTTS ==
    \E t \in Threads :
        \/ TtsCall(t)
        \/ GetAvailableVoices(t)
        \/ EngineEnter(t)
        \/ GaAcquire(t) \/ GaMkdir(t) \/ GaGetVoice(t) \/ GaSetVoice(t)
        \/ GaGetRate(t) \/ GaSetRate(t) \/ GaSave(t) \/ GaRun(t)
        \/ GaRestoreVoice(t) \/ GaRestoreRate(t) \/ GaVerify(t) \/ GaExit(t)
        \/ SpAcquire(t) \/ SpGetVoice(t) \/ SpSetVoice(t) \/ SpGetRate(t)
        \/ SpSetRate(t) \/ SpSay(t) \/ SpRun(t) \/ SpRestoreVoice(t)
        \/ SpRestoreRate(t) \/ SpExit(t)
        \/ GvGetVoices(t)
        \/ Returned(t)
SpecTTS == InitTTS /\ [][NextTTS]_vars

\* a thread inside a call goes on: every statement and every engine
\* operation ends, by returning or by raising
ThreadRuns(t) ==
    \/ EngineEnter(t)
    \/ GaMkdir(t) \/ GaGetVoice(t) \/ GaSetVoice(t)
    \/ GaGetRate(t) \/ GaSetRate(t) \/ GaSave(t) \/ GaRun(t)
    \/ GaRestoreVoice(t) \/ GaRestoreRate(t) \/ GaVerify(t) \/ GaExit(t)
    \/ SpGetVoice(t) \/ SpSetVoice(t) \/ SpGetRate(t)
    \/ SpSetRate(t) \/ SpSay(t) \/ SpRun(t) \/ SpRestoreVoice(t)
    \/ SpRestoreRate(t) \/ SpExit(t)
    \/ GvGetVoices(t)
    \/ Returned(t)

\* a thread at `with _tts_engine.lock:` takes the lock
ThreadAcquires(t) == GaAcquire(t) \/ SpAcquire(t)

\* fair scheduling: a thread that can go on is not suspended forever, and a
\* thread waiting for a lock that stays free takes it.  threading.Lock keeps
\* no queue of its waiters: when the lock is freed and taken again by
\* another thread, nothing says that a thread already waiting comes first,
\* so no more than weak fairness holds for taking the lock.  The operations
\* of the engine are taken to end, by returning or by raising
SpecTTSFair ==
    /\ SpecTTS
    /\ \A t \in Threads : WF_vars(ThreadRuns(t)) /\ WF_vars(ThreadAcquires(t))

InitUI == UiInit /\ ChunkIdle /\ TtsInit /\ RwIdle
NextUI ==
    \/ Tick
    \/ Load
    \/ \E method \in InputMethods : SetInputMethod(method)
    \/ \E text \in UiTexts : SetText(text)
    \/ \E text \in UiTexts : Upload(text)
    \/ \E idx \in 1..MaxSaved : LoadFromHistory(idx)
    \/ ToggleSaveHistory
    \/ ClearHistory
    \/ RewriteOnly
    \/ RewriteAndAudio
    \/ AudioOnly
    \/ QuickSpeak
    \* the session's run after get_available_voices
    \/ RenderOnly
    \/ CallRewriteText
    \/ CallGenerateAudio
    \/ CallSpeakText
    \* the session's rewrite_text
    \/ RwValidate
    \/ RwInitializeModel
    \/ RwInitialized
    \/ SessionShortPath
    \/ RewriteReturned
    \* initialize_model, in either session's thread
    \/ OtherSessionRewrite
    \/ \E c \in Callers :
          \/ ImLoadTokenizer(c)
          \/ ImLoadModel(c)
          \/ ImToDevice(c)
          \/ ImCreatePipeline(c)
          \/ ImReturnCached(c)
          \/ ImReturnLoaded(c)
    \/ OtherReturned
    \* get_available_voices, generate_audio and speak_text, in either
    \* session's thread
    \/ OtherSessionVoices
    \/ OtherSessionAudio
    \/ \E t \in {SessionThread, OtherThread} :
          \/ EngineEnter(t)
          \/ GvGetVoices(t)
          \/ GaAcquire(t) \/ GaMkdir(t) \/ GaSave(t) \/ GaRun(t)
          \/ GaVerify(t) \/ GaExit(t)
          \/ SpAcquire(t) \/ SpSay(t) \/ SpRun(t) \/ SpExit(t)
    \/ Returned(OtherThread)
    \/ AudioReturned
    \/ SpeakReturned
SpecUI == InitUI /\ [][NextUI]_vars

InitPanel == PanelInit /\ ChunkIdle /\ TtsIdle /\ RwIdle
NextPanel == RenderHistory
SpecPanel == InitPanel /\ [][NextPanel]_vars

InitRewrite == RwInit /\ ChunkIdle /\ TtsIdle /\ UiIdle
NextRewrite ==
    \/ \E text \in RwTexts, tone \in RwTones, creativity10 \in Creativities10,
          max_tokens \in TokenLimits :
          RewriteText(text, tone, creativity10, max_tokens)
    \/ RwValidate
    \/ RwInitializeModel
    \/ OtherInitializeModel
    \/ \E c \in Callers :
          \/ ImLoadTokenizer(c)
          \/ ImLoadModel(c)
          \/ ImToDevice(c)
          \/ ImCreatePipeline(c)
          \/ ImReturnCached(c)
          \/ ImReturnLoaded(c)
    \/ RwInitialized
    \/ OtherReturned
    \/ RwShort
    \/ RwChunk
    \/ RwCombine
    \/ RwReturned
SpecRewrite == InitRewrite /\ [][NextRewrite]_vars

-----------------------------------------------------------------------------
(* Claims about chunk_text *)

\* the number of words str.split() finds in a chunk
WordCount(chunk) == Len(SplitWs(chunk))

\* C1: every chunk chunk_text returns has at most max_chunk_size characters,
\* unless it is one single word that is itself longer than the limit.
C1_ChunksWithinLimit ==
    cpc = "done" =>
        \A i \in 1..Len(chunks) :
            \/ Len(chunks[i]) <= csize
            \/ WordCount(chunks[i]) = 1

\* C2: a sentence longer than max_chunk_size is split between words whether
\* or not a chunk was being built before it: no returned chunk lying inside
\* one sentence (it holds no sentence separator) and longer than the limit
\* holds two or more words.
C2_LongSentenceSplitByWords ==
    (cpc = "done" /\ Len(ctext) > csize) =>
        \A i \in 1..Len(chunks) :
            (Len(chunks[i]) > csize /\ \A k \in 1..Len(chunks[i]) : chunks[i][k] # ".")
                => WordCount(chunks[i]) <= 1

-----------------------------------------------------------------------------
(* Claims about tts.py *)

\* C3: the lock serializes every call into the engine: no two threads are
\* executing engine operations at the same time, whichever of generate_audio,
\* speak_text and get_available_voices they run.
C3_EngineCallsSerialized ==
    \A t1 \in Threads, t2 \in Threads :
        t1 # t2 => ~(th[t1].busy /\ th[t2].busy)

\* a call of generate_audio / speak_text by t has its result
GaEnded(t) == th[t].op = "generate_audio" /\ th[t].pc \in {"ga_exit", "done"}
SpEnded(t) == th[t].op = "speak_text" /\ th[t].pc \in {"sp_exit", "done"}

\* C6 as claimed: no exception escapes; for blank text, an uninitialized
\* engine or ANY exception raised while configuring or running the engine
\* (caught by the outer handler or swallowed on the way) generate_audio
\* returns None and speak_text returns False; generate_audio returns the
\* path only when the file exists and is non-empty.
C6_AnyExceptionGivesNoneOrFalse ==
    \A t \in Threads :
        /\ GaEnded(t) =>
              /\ th[t].result \in {"None", "output_path"}
              /\ (Blank(th[t].text) \/ ~engine.ok \/ th[t].failed \/ th[t].swallowed)
                    => th[t].result = "None"
              /\ (th[t].pc = "ga_exit" /\ th[t].result = "output_path") => th[t].file
        /\ SpEnded(t) =>
              /\ th[t].result \in {"True", "False"}
              /\ (Blank(th[t].text) \/ ~engine.ok \/ th[t].failed \/ th[t].swallowed)
                    => th[t].result = "False"

\* C6 amended: no exception escapes (every call ends with a result of its
\* return type); for blank text, an uninitialized engine or an exception that
\* reaches the outer handler generate_audio returns None and speak_text
\* returns False; generate_audio returns the path only when the file exists
\* and is non-empty.  An exception swallowed while the custom voice or rate
\* is applied does not by itself fail the call.
C6_CaughtFailuresGiveNoneOrFalse ==
    \A t \in Threads :
        /\ GaEnded(t) =>
              /\ th[t].result \in {"None", "output_path"}
              /\ (Blank(th[t].text) \/ ~engine.ok \/ th[t].failed)
                    => th[t].result = "None"
              /\ (th[t].pc = "ga_exit" /\ th[t].result = "output_path") => th[t].file
        /\ SpEnded(t) =>
              /\ th[t].result \in {"True", "False"}
              /\ (Blank(th[t].text) \/ ~engine.ok \/ th[t].failed)
                    => th[t].result = "False"

\* C6 witness: a generate_audio call whose engine raised into the outer
\* handler is about to return None, while another thread's speak_text call
\* ended with False.
C6_Witness ==
    \E t \in Threads, u \in Threads :
        /\ th[t].op = "generate_audio" /\ th[t].pc = "ga_exit"
        /\ th[t].failed /\ th[t].result = "None"
        /\ SpEnded(u) /\ th[u].result = "False"

\* C9 as claimed: live speech is detached from the caller: the thread that
\* called speak_text never itself executes the speech (say, runAndWait), so
\* it returns without waiting for it.
C9_SpeechDetachedFromCaller ==
    \A t \in Threads :
        th[t].op = "speak_text" => ~(th[t].busy /\ th[t].pc \in {"sp_say", "sp_run"})

\* C9 amended: speak_text speaks synchronously in the calling thread: say and
\* runAndWait execute in the caller while it holds the TTS lock, the caller
\* has no result before they are over, and it gets True only after
\* runAndWait has returned.
C9_SpeechSynchronous ==
    \A t \in Threads :
        th[t].op = "speak_text" =>
            /\ (th[t].busy /\ th[t].pc \in {"sp_say", "sp_run"}) => lock = t
            /\ th[t].pc \in {"sp_lock", "sp_getvoice", "sp_setvoice", "sp_getrate",
                             "sp_setrate", "sp_say", "sp_run"}
                  => th[t].result = "none"
            /\ (th[t].pc = "sp_exit" /\ th[t].result = "True") => th[t].spoken

\* C9 witness: a speak_text call is about to return True, its speech over.
C9_Witness ==
    \E t \in Threads :
        /\ th[t].op = "speak_text" /\ th[t].pc = "sp_exit"
        /\ th[t].result = "True" /\ th[t].spoken

\* C10: when generate_audio or speak_text returns, succeeded or failed, the
\* engine's voice and rate are what they were when the call took the engine;
\* so a call with the default speech_rate and no voice_id synthesizes with
\* a rate and a voice that the engine's configuration left, never with ones
\* an earlier caller asked for.
C10_SettingsRestored ==
    \A t \in Threads :
        /\ th[t].pc \in {"ga_exit", "sp_exit"} =>
              /\ engine.voice = th[t].entry.voice
              /\ engine.rate = th[t].entry.rate
        /\ (/\ th[t].busy /\ th[t].pc \in {"ga_run", "sp_run"}
            /\ th[t].speech_rate = DefaultRate /\ th[t].voice_id = "None") =>
              /\ \E e \in ConfiguredEngines : engine.rate = e.rate
              /\ \E e \in ConfiguredEngines : engine.voice = e.voice

-----------------------------------------------------------------------------
(* Claims about app.py *)

\* h2 is h with one entry added at the end
ExtendsByOne(h, h2) ==
    /\ Len(h2) = Len(h) + 1
    /\ SubSeq(h2, 1, Len(h)) = h

\* C4 as claimed: the history is append-only: every step leaves it unchanged
\* or extends it by one entry at the end.
C4_HistoryAppendOnly ==
    [][history' = history \/ ExtendsByOne(history, history')]_vars

\* the step in which rewrite_text ends in the session's run, by returning
\* or by raising
RewriteEnds == script = "rewrite_text" /\ rw.pc = "done" /\ rw' # rw

\* the step in which the run started by a press of Clear History goes
\* through the sidebar
ClearHistoryRuns ==
    /\ script = "get_available_voices"
    /\ event = "clear_history"
    /\ script' # script

\* C4 amended: the history changes in two ways only.  The step in which
\* rewrite_text returns to the script (Rewrite Only or Rewrite + Audio), with
\* "Save processing history" checked, adds one entry at the end, made of the
\* input text and the rewritten text, and leaves the entries before it as
\* they were; when the box is not checked, or when rewrite_text raised, that
\* step leaves the history unchanged.  The run of a press of Clear History
\* empties it.  Every other step (of Audio Only, of Quick Speak, of a
\* toggled option, of an edited, uploaded or loaded text, of another
\* session) leaves it unchanged.
C4_HistoryAppendOrClear ==
    [][IF RewriteEnds
       THEN IF rw.outcome = "returned" /\ widgets.save_history
            THEN /\ ExtendsByOne(history, history')
                 /\ history'[Len(history')].original = widgets.text_input
                 /\ history'[Len(history')].rewritten = rw.result
            ELSE history' = history
       ELSE IF ClearHistoryRuns
       THEN history' = <<>>
       ELSE history' = history]_vars

\* C4 witness: in a run of Rewrite + Audio, rewrite_text has returned and
\* its entry stands at the end of a history that already held an entry of
\* an earlier instant.
C4_Witness ==
    /\ event = "rewrite_and_audio"
    /\ script = "generate_audio"
    /\ widgets.save_history
    /\ Len(history) >= 2
    /\ history[Len(history)].timestamp = now
    /\ history[Len(history)].original = widgets.text_input
    /\ history[1].timestamp < now

\* C5: when a run of the script has ended, the panel shows at most five
\* entries: the last min(5, n) entries of a history of length n, newest
\* first, each labelled with its own 1-based position in the history (the
\* newest n).  The panel exists when save_history is checked and the history
\* is not empty.
C5_PanelShowsLastFive ==
    script = "idle" =>
        LET n == Len(history)
            rows == panel.rows
        IN  /\ Len(rows) <= 5
            /\ panel.shown <=> (widgets.save_history /\ n > 0)
            /\ ~panel.shown => rows = <<>>
            /\ panel.shown =>
                  /\ Len(rows) = (IF n < 5 THEN n ELSE 5)
                  /\ \A k \in 1..Len(rows) :
                        /\ rows[k].label = n - k + 1
                        /\ rows[k].entry = history[n - k + 1]

\* C5 witness: a run has ended with the panel shown for a history longer
\* than five entries whose oldest and newest entries differ.
C5_Witness ==
    /\ script = "idle"
    /\ panel.shown
    /\ Len(history) > 5
    /\ history[1] # history[Len(history)]

-----------------------------------------------------------------------------
(* Claims about rewrite_text *)

\* the arguments the call was made with are invalid: blank text, fewer than
\* five characters after stripping, creativity outside [0.1, 2.0] or
\* max_tokens outside [10, 2048]
InvalidArguments ==
    \/ \A i \in 1..Len(rw.text) : IsSpace(rw.text[i])
    \/ Len(Strip(rw.text)) < 5
    \/ rw.creativity10 < 1 \/ rw.creativity10 > 20
    \/ rw.max_tokens < 10 \/ rw.max_tokens > 2048

\* C7: when rewrite_text ends, it has raised ValueError exactly when its
\* arguments are invalid, and then the model was neither initialized nor
\* invoked; every other failure is a RuntimeError.
C7_ValueErrorExactlyOnInvalidInput ==
    rw.pc = "done" =>
        /\ (rw.outcome = "ValueError") <=> InvalidArguments
        /\ InvalidArguments => ~rw.initialized /\ rw.invoked = 0
        /\ rw.outcome \in {"returned", "ValueError", "RuntimeError"}

\* C7 witness: a call with text long enough but creativity out of range has
\* ended with ValueError
C7_Witness ==
    /\ rw.pc = "done"
    /\ rw.outcome = "ValueError"
    /\ Len(Strip(rw.text)) >= 5
    /\ rw.creativity10 > 20

\* the sum of a sequence of numbers
RECURSIVE SumSeq(_)
SumSeq(q) == IF q = <<>> THEN 0 ELSE Head(q) + SumSeq(Tail(q))

\* C8: when rewrite_text ends, the max_new_tokens budgets of its pipeline
\* calls, min(max_tokens // n + 50, max_tokens) for each of the n chunks of a
\* long text, add up to at most max_tokens.
C8_BudgetsWithinMaxTokens ==
    rw.pc = "done" => SumSeq(rw.budgets) <= rw.max_tokens

\* the call took the long path: its stripped text has more than 500 characters
LongPath == Len(rw.stripped) > 500

\* where piece i starts in pieces joined by one-character separators
PieceOffset(pieces, i) == SumSeq([j \in 1..(i - 1) |-> Len(pieces[j]) + 1])

\* text is the pieces in their order with exactly one blank between neighbours
JoinedBySingleSpaces(text, pieces) ==
    LET n == Len(pieces)
    IN  /\ Len(text) = (IF n = 0 THEN 0 ELSE PieceOffset(pieces, n + 1) - 1)
        /\ \A i \in 1..n :
              LET off == PieceOffset(pieces, i)
              IN  /\ SubSeq(text, off + 1, off + Len(pieces[i])) = pieces[i]
                  /\ i > 1 => text[off] = " "

\* C11: on the long path a chunk whose generation raises is replaced by the
\* chunk itself and the rewrite goes on: the call returns, and the combined
\* result has exactly one piece per chunk, in the chunks' order, joined by
\* single spaces.
C11_ChunkFailureFallsBack ==
    LongPath =>
        /\ Len(rw.rewritten_chunks) <= Len(rw.chunks)
        /\ Len(rw.raised) = Len(rw.rewritten_chunks)
        /\ \A i \in 1..Len(rw.raised) :
              rw.raised[i] => rw.rewritten_chunks[i] = rw.chunks[i]
        /\ rw.pc = "done" =>
              /\ rw.outcome = "returned"
              /\ Len(rw.rewritten_chunks) = Len(rw.chunks)
              /\ JoinedBySingleSpaces(rw.combined, rw.rewritten_chunks)

\* C11 witness: a long-path call has returned after the generation of one
\* chunk raised and that of another chunk did not
C11_Witness ==
    /\ LongPath
    /\ rw.pc = "done"
    /\ rw.outcome = "returned"
    /\ \E i, j \in 1..Len(rw.raised) : rw.raised[i] /\ ~rw.raised[j]

\* C12: when the post-processed generation is empty or has fewer than 5
\* characters after stripping, rewrite_text returns the stripped original
\* text; so every string it returns has at least 5 characters after
\* stripping.
C12_ShortOutputReturnsOriginal ==
    (rw.pc = "done" /\ rw.outcome = "returned") =>
        /\ (rw.final_result = <<>> \/ Len(Strip(rw.final_result)) < 5)
              => rw.result = Strip(rw.text)
        /\ Len(Strip(rw.result)) >= 5

\* C12 witness: a call whose text has blanks around it got a generation too
\* short after post-processing and has returned its stripped text
C12_Witness ==
    /\ rw.pc = "done"
    /\ rw.outcome = "returned"
    /\ rw.invoked > 0
    /\ Len(Strip(rw.final_result)) < 5
    /\ rw.result = Strip(rw.text)
    /\ rw.result # rw.text

\* C13: initialize_model loads at most once: once the pipeline is set, no
\* step replaces it, and every call that returns, whether it found the
\* pipeline set or loaded it, returns the pipeline the module holds; a call
\* that finds the pipeline set does not fail, and a failed call raises
\* RuntimeError and does not set the pipeline.
C13_ModelLoadedAtMostOnce ==
    /\ [][PipelineLoaded(rewrite_pipeline) =>
              rewrite_pipeline' = rewrite_pipeline]_vars
    /\ [](\A c \in Callers :
             /\ im[c].outcome = "returned" => im[c].result = rewrite_pipeline
             /\ im[c].load = "failed" =>
                   /\ im[c].outcome = "RuntimeError"
                   /\ im[c].entry_pipeline = "None"
                   /\ im[c].result = "None")

-----------------------------------------------------------------------------
(* Claims about the TTS lock *)

\* thread t stands at `with _tts_engine.lock:`
WaitsForLock(t) == th[t].pc \in {"ga_lock", "sp_lock"}

\* thread t is inside a with block of generate_audio or speak_text
InsideWith(t) ==
    th[t].pc \in {"ga_mkdir", "ga_getvoice", "ga_setvoice", "ga_getrate",
                  "ga_setrate", "ga_save", "ga_run", "ga_restorevoice",
                  "ga_restorerate", "ga_verify", "ga_exit",
                  "sp_getvoice", "sp_setvoice", "sp_getrate", "sp_setrate",
                  "sp_say", "sp_run", "sp_restorevoice", "sp_restorerate",
                  "sp_exit"}

\* C14 as claimed: the TTS lock is always released: a thread holds it
\* exactly while it is inside the with block, every thread that holds it
\* gives it up, whatever the call's outcome, and under fair scheduling every
\* thread waiting for the lock eventually acquires it.
C14_LockAlwaysReleased ==
    \A t \in Threads :
        /\ [](lock = t <=> InsideWith(t))
        /\ (lock = t) ~> (lock # t)
        /\ WaitsForLock(t) ~> (lock = t)

\* C14 amended: a thread holds the lock exactly while it is inside the with
\* block of generate_audio or speak_text, so every way out of the block
\* (the return of the path or of True, the return of None or False, an
\* exception of the engine caught by the handler) gives it up, and every
\* thread that holds it does give it up.  No state is a deadlock: the thread inside the block can take its next step, and a
\* thread waiting at the with statement can take the lock exactly when no
\* thread holds it.  Which of the waiting threads takes a freed lock is not
\* determined, and a thread may wait for ever while others take it in turn.
C14_LockReleasedOnEveryExit ==
    \A t \in Threads :
        /\ [](/\ (lock = t) <=> InsideWith(t)
              /\ InsideWith(t) => ENABLED ThreadRuns(t)
              /\ WaitsForLock(t) => ((lock = 0) <=> ENABLED ThreadAcquires(t)))
        /\ (lock = t) ~> (lock # t)

\* C14 witness: a thread holds the lock after another thread's speak_text
\* call failed inside the engine and returned False
C14_Witness ==
    \E t \in Threads, u \in Threads :
        /\ lock = t
        /\ u # t
        /\ th[u].pc = "done" /\ th[u].op = "speak_text" /\ th[u].result = "False"
        /\ ~Blank(th[u].text) /\ engine.ok

====
